---- MODULE Spec2Model ----
(***************************************************************************)
(* Model of examples/diet.rs: solve_diet_example formulates the diet       *)
(* problem (one non-negative variable per dish, cost objective, one        *)
(* constraint per Min/Max guideline) and hands it to the solver backend.   *)
(*                                                                         *)
(* f64 values are modelled as exact fixed-point integers counted in units  *)
(* of 0.0001, so the tolerance 0.0001 of line 143 is the integer 1.        *)
(* Floating-point rounding is not modelled.                                *)
(***************************************************************************)
EXTENDS Integers, Sequences, FiniteSets, TLC

\* ------------------------------------------------------------------------
\* Types of the example
\* ------------------------------------------------------------------------

\* Dish::FOODS
FOODS ==
  << "Hamburger", "Chicken", "HotDog", "Fries", "Macaroni",
     "Pizza", "Salad", "Milk", "IceCream" >>

\* Nutrient::ALL
ALL ==
  << "Calories", "Protein", "Sodium", "Fat" >>

\* enum Dish
Dish ==
  { FOODS[i] : i \in 1..Len(FOODS) }

\* enum Nutrient
Nutrient ==
  { ALL[i] : i \in 1..Len(ALL) }

\* enum Quantity
Quantity ==
  { "Min", "Max", "Value" }

\* A decimal literal whole.frac (four fractional digits) in units of 0.0001.
Fixed(whole, frac) ==
  whole * 10000 + frac

\* The literal 0.0001 added to a Min bound.
Epsilon ==
  1

\* struct FoodProperty
FoodProperty(n, v, l) ==
  [nutrient |-> n, volume |-> v, level |-> l]

\* struct Guideline
Guideline(n, v, l) ==
  [limit |-> FoodProperty(n, v, l)]

\* struct FoodProperties
FoodProperties(f, c, ns) ==
  [food |-> f, cost |-> c, nutrients |-> ns]

\* ------------------------------------------------------------------------
\* The data main() passes to solve_diet_example
\* ------------------------------------------------------------------------

MainGuidelines ==
  << Guideline("Calories", Fixed(1800, 0), "Min"),
     Guideline("Calories", Fixed(2200, 0), "Max"),
     Guideline("Protein",  Fixed(91, 0),   "Min"),
     Guideline("Fat",      Fixed(0, 0),    "Min"),
     Guideline("Calories", Fixed(65, 0),   "Max"),
     Guideline("Sodium",   Fixed(0, 0),    "Min"),
     Guideline("Sodium",   Fixed(1779, 0), "Max") >>

\* The four FoodProperty entries every dish of main() carries.
MainNutrients(calories, protein, sodium, fat) ==
  << FoodProperty("Calories", calories, "Value"),
     FoodProperty("Protein",  protein,  "Value"),
     FoodProperty("Sodium",   sodium,   "Value"),
     FoodProperty("Fat",      fat,      "Value") >>

MainFoodProperties ==
  << FoodProperties("Hamburger", Fixed(2, 4900),
       MainNutrients(Fixed(410, 0), Fixed(24, 0), Fixed(730, 0),  Fixed(26, 0))),
     FoodProperties("Chicken",   Fixed(2, 8900),
       MainNutrients(Fixed(420, 0), Fixed(32, 0), Fixed(1190, 0), Fixed(10, 0))),
     FoodProperties("HotDog",    Fixed(1, 5000),
       MainNutrients(Fixed(560, 0), Fixed(20, 0), Fixed(1800, 0), Fixed(32, 0))),
     FoodProperties("Fries",     Fixed(1, 8900),
       MainNutrients(Fixed(380, 0), Fixed(4, 0),  Fixed(270, 0),  Fixed(19, 0))),
     FoodProperties("Macaroni",  Fixed(2, 900),
       MainNutrients(Fixed(320, 0), Fixed(12, 0), Fixed(930, 0),  Fixed(10, 0))),
     FoodProperties("Pizza",     Fixed(1, 9900),
       MainNutrients(Fixed(320, 0), Fixed(15, 0), Fixed(820, 0),  Fixed(12, 0))),
     FoodProperties("Salad",     Fixed(2, 4900),
       MainNutrients(Fixed(320, 0), Fixed(31, 0), Fixed(1230, 0), Fixed(12, 0))),
     FoodProperties("Milk",      Fixed(0, 8900),
       MainNutrients(Fixed(100, 0), Fixed(8, 0),  Fixed(125, 0),  Fixed(2, 5000))),
     FoodProperties("IceCream",  Fixed(1, 5900),
       MainNutrients(Fixed(330, 0), Fixed(8, 0),  Fixed(180, 0),  Fixed(10, 0))) >>

\* ------------------------------------------------------------------------
\* Bounded inputs
\* ------------------------------------------------------------------------

\* Longest generated guideline list.
MaxGuidelines ==
  2

\* Most FoodProperties entries in a generated food_properties list.
MaxFoods ==
  2

\* Most FoodProperty entries, over all foods of a generated list.
MaxNutrients ==
  2

SmallDishes ==
  { "Hamburger", "Chicken" }

SmallNutrients ==
  { "Calories", "Protein" }

\* Guideline bounds of the generated guideline lists.
SmallBounds ==
  { 0, 1 }

\* Contribution values of the generated food_properties lists.
SmallVolumes ==
  { 1, 2 }

SeqsUpTo(S, n) ==
  UNION { [1..k -> S] : k \in 0..n }

GeneratedGuidelines ==
  SeqsUpTo({ Guideline(n, v, l) : n \in SmallNutrients, v \in SmallBounds, l \in Quantity },
           MaxGuidelines)

\* The food_properties lists of at most foods entries with at most nutrients
\* FoodProperty entries in all.
RECURSIVE FoodPropertiesLists(_, _)
FoodPropertiesLists(foods, nutrients) ==
  LET props == { FoodProperty(n, v, "Value") : n \in SmallNutrients, v \in SmallVolumes }
  IN  { << >> } \cup
      (IF foods = 0 THEN {}
       ELSE UNION { { << FoodProperties(f, 1, ns) >> \o rest :
                        f \in SmallDishes, ns \in [1..k -> props],
                        rest \in FoodPropertiesLists(foods - 1, nutrients - k) } :
                    k \in 0..nutrients })

GeneratedFoodProperties ==
  FoodPropertiesLists(MaxFoods, MaxNutrients)

\* Guideline lists every generated food_properties list is run with.
SampleGuidelines ==
  { << >>,
    << Guideline("Calories", 1, "Min") >>,
    << Guideline("Protein", 0, "Value") >>,
    << Guideline("Calories", 2, "Max"), Guideline("Protein", 0, "Min") >> }

\* food_properties lists every generated guideline list is run with.
SampleFoodProperties ==
  { << >>,
    << FoodProperties("Hamburger", 1, << FoodProperty("Calories", 1, "Value") >>) >>,
    << FoodProperties("Hamburger", 1, << FoodProperty("Calories", 1, "Value"),
                                         FoodProperty("Protein", 1, "Value") >>),
       FoodProperties("Chicken", 2,   << FoodProperty("Calories", 2, "Value"),
                                         FoodProperty("Protein", 1, "Value") >>) >>,
    << FoodProperties("Chicken", 2,   << FoodProperty("Calories", 1, "Value"),
                                         FoodProperty("Calories", 2, "Value") >>),
       FoodProperties("Hamburger", 1, << FoodProperty("Calories", 2, "Value"),
                                         FoodProperty("Protein", 0, "Value") >>) >>,
    << FoodProperties("Hamburger", 2, << FoodProperty("Protein", 2, "Value") >>),
       FoodProperties("Chicken", 1,   << FoodProperty("Calories", 1, "Value"),
                                         FoodProperty("Protein", 1, "Value") >>) >> }

\* food_properties lists with an entry for every dish of Dish::FOODS.
PricedFoodProperties ==
  { [i \in 1..Len(FOODS) |->
       FoodProperties(FOODS[i], cost[i], << FoodProperty("Calories", 1, "Value") >>)] :
      cost \in [1..Len(FOODS) -> { 1, 2 }] }

\* The <<guidelines, food_properties>> pairs solve_diet_example is called with:
\* the call of main(), main()'s foods without guidelines, and the small inputs.
Inputs ==
  { << MainGuidelines, MainFoodProperties >>, << << >>, MainFoodProperties >> }
    \cup (GeneratedGuidelines \X SampleFoodProperties)
    \cup (SampleGuidelines \X GeneratedFoodProperties)
    \cup ({ << >>, << Guideline("Calories", 1, "Min") >> } \X PricedFoodProperties)

\* ------------------------------------------------------------------------
\* Expression algebra (good_lp::Expression): a coefficient per variable
\* ------------------------------------------------------------------------

\* Variable handles, in the order vars.add hands them out.
Variable ==
  1..Len(FOODS)

\* Expression::default(), the empty sum
ZeroExpression ==
  [v \in Variable |-> 0]

\* Variable * f64
Times(var, coefficient) ==
  [v \in Variable |-> IF v = var THEN coefficient ELSE 0]

\* Expression + Expression
Plus(e1, e2) ==
  [v \in Variable |-> e1[v] + e2[v]]

\* Iterator::sum over expressions
RECURSIVE ExpressionSum(_)
ExpressionSum(es) ==
  IF es = << >> THEN ZeroExpression
  ELSE Plus(ExpressionSum(SubSeq(es, 1, Len(es) - 1)), es[Len(es)])

\* ------------------------------------------------------------------------
\* The solver backend behind SolverModel::solve: an exact LP solve.
\* A point is [num, den]: variable v has the value num[v] / den, den > 0.
\* The feasible region lies in the non-negative orthant, so it has a vertex
\* whenever it is not empty, and a minimum of the objective, whose
\* coefficients are costs >= 0, is attained at a vertex.  Vertices are
\* enumerated as basic solutions: k constraints tight, k variables basic,
\* every other variable at its lower bound 0.
\* ------------------------------------------------------------------------

RECURSIVE SumTo(_, _)
SumTo(f, n) ==
  IF n = 0 THEN 0 ELSE SumTo(f, n - 1) + f[n]

\* The value of expression e at x, for x a function on Variable.
Dot(e, x) ==
  SumTo([v \in Variable |-> e[v] * x[v]], Len(FOODS))

Abs(a) ==
  IF a < 0 THEN -a ELSE a

RECURSIVE Gcd(_, _)
Gcd(a, b) ==
  IF b = 0 THEN a ELSE Gcd(b, a % b)

RECURSIVE GcdTo(_, _)
GcdTo(f, n) ==
  IF n = 0 THEN 0 ELSE Gcd(GcdTo(f, n - 1), Abs(f[n]))

RECURSIVE SortedSeq(_)
SortedSeq(S) ==
  IF S = {} THEN << >>
  ELSE LET m == CHOOSE x \in S : \A y \in S : x <= y
       IN  << m >> \o SortedSeq(S \ {m})

\* The matrix m (k rows of k entries) without row 1 and column j.
Minor(m, k, j) ==
  [r \in 1..(k - 1) |-> [c \in 1..(k - 1) |-> m[r + 1][IF c < j THEN c ELSE c + 1]]]

\* Determinant by expansion along the first row.
RECURSIVE Det(_, _)
Det(m, k) ==
  IF k = 0 THEN 1
  ELSE SumTo([j \in 1..k |->
                (IF j % 2 = 1 THEN 1 ELSE -1) * m[1][j] * Det(Minor(m, k, j), k - 1)], k)

\* Whether point p meets constraint c.
Satisfies(c, p) ==
  IF c.rel = ">="
  THEN Dot(c.expression, p.num) >= c.rhs * p.den
  ELSE Dot(c.expression, p.num) <= c.rhs * p.den

\* Whether p respects the lower bounds of the variable definitions.
WithinBounds(definitions, p) ==
  \A v \in 1..Len(definitions) : p.num[v] >= definitions[v].min * p.den

\* A lower and an upper bound on one expression that exclude each other.
Contradictory(cons) ==
  \E i, j \in 1..Len(cons) :
    /\ cons[i].rel = ">="
    /\ cons[j].rel = "<="
    /\ cons[i].expression = cons[j].expression
    /\ cons[i].rhs > cons[j].rhs

ActiveVariables(cons) ==
  { v \in Variable : \E i \in 1..Len(cons) : cons[i].expression[v] # 0 }

\* The point in lowest terms.
Reduced(num, den) ==
  LET g == Gcd(GcdTo(num, Len(FOODS)), den)
  IN  [num |-> [v \in Variable |-> num[v] \div g], den |-> den \div g]

\* The basic solutions with the constraints S tight and the variables B basic
\* (Cramer's rule, in the distances above the lower bounds); none when the
\* k by k system is singular.
BasicSolutions(definitions, cons, S, B) ==
  LET k    == Cardinality(S)
      rows == SortedSeq(S)
      cols == SortedSeq(B)
      low  == [v \in Variable |-> definitions[v].min]
      m    == [i \in 1..k |-> [j \in 1..k |-> cons[rows[i]].expression[cols[j]]]]
      rhs  == [i \in 1..k |-> cons[rows[i]].rhs - Dot(cons[rows[i]].expression, low)]
      d    == Det(m, k)
      sign == IF d < 0 THEN -1 ELSE 1
      col(j) == Det([i \in 1..k |-> [c \in 1..k |-> IF c = j THEN rhs[i] ELSE m[i][c]]], k)
      at(v)  == CHOOSE j \in 1..k : cols[j] = v
  IN  IF d = 0 THEN {}
      ELSE { Reduced([v \in Variable |->
                        (IF v \in B THEN sign * col(at(v)) ELSE 0) + low[v] * sign * d],
                     sign * d) }

Vertices(definitions, cons) ==
  LET bases == { sb \in (SUBSET (1..Len(cons))) \X (SUBSET ActiveVariables(cons)) :
                   Cardinality(sb[1]) = Cardinality(sb[2]) }
      basic == UNION { BasicSolutions(definitions, cons, sb[1], sb[2]) : sb \in bases }
  IN  { p \in basic :
          /\ WithinBounds(definitions, p)
          /\ \A i \in 1..Len(cons) : Satisfies(cons[i], p) }

Infeasible(definitions, cons) ==
  Contradictory(cons) \/ Vertices(definitions, cons) = {}

\* The vertices at which the objective is least.
Minimisers(definitions, obj, cons) ==
  LET V == Vertices(definitions, cons)
  IN  { p \in V : \A q \in V : Dot(obj, p.num) * q.den <= Dot(obj, q.num) * p.den }

\* The results solve() can return for the problem.
SolveResults(definitions, obj, cons) ==
  IF Infeasible(definitions, cons)
  THEN { [kind |-> "Infeasible"] }
  ELSE { [kind |-> "Ok", num |-> p.num, den |-> p.den] :
           p \in Minimisers(definitions, obj, cons) }

\* ------------------------------------------------------------------------
\* solve_diet_example
\* ------------------------------------------------------------------------

VARIABLES
  guidelines,       \* parameter guidelines
  food_properties,  \* parameter food_properties
  pc,               \* position in solve_diet_example
  vars,             \* the variable definitions added to vars, in order
  food_vars,        \* HashMap<&Dish, Variable>
  objective,        \* the objective expression of the problem p
  constraints,      \* the constraints added to the problem p, in order
  h,                \* HashMap<&Nutrient, Vec<Expression>>
  food,             \* position of the loop over food_properties
  guide,            \* position of the loop over guidelines
  solution,         \* what p.solve() returned
  printed,          \* the "Food .. Count .." lines printed from the solution
  result            \* what the caller of solve_diet_example gets

state ==
  << guidelines, food_properties, pc, vars, food_vars, objective, constraints,
     h, food, guide, solution, printed, result >>

\* VariableDefinition with a lower bound of 1 in place of 0.
VariableDefinitionMinOne ==
  [min |-> 1]

\* variable().min(0.0)
VariableDefinition ==
  [min |-> 0]

\* The Result value solve_diet_example returns.
OkUnit ==
  "Ok(())"

\* A failed expect(): the thread panics, nothing is returned.
Panic(message) ==
  "panicked: " \o message

\* AfterAggregate with solve() called ahead of the loop over guidelines.
AfterAggregateSolve ==
  "Solve"

\* Where control goes once the loop over food_properties is over.
AfterAggregate ==
  IF Len(guidelines) > 0 THEN "Translate" ELSE "Solve"

\* Where control goes once the objective is built and the problem defined.
AfterObjective ==
  IF Len(food_properties) > 0 THEN "Aggregate" ELSE AfterAggregate

\* Entry with the occupied arm replacing the vector instead of pushing to it.
EntryOverwrite(hmap, nutrient, e) ==
  IF nutrient \in DOMAIN hmap
  THEN [hmap EXCEPT ![nutrient] = << e >>]
  ELSE hmap @@ (nutrient :> << e >>)

\* match h.entry(&category.nutrient)
Entry(hmap, nutrient, e) ==
  IF nutrient \in DOMAIN hmap
  THEN [hmap EXCEPT ![nutrient] = Append(@, e)]
  ELSE hmap @@ (nutrient :> << e >>)

\* for category in &food.nutrients
RECURSIVE Nutrients(_, _, _)
Nutrients(hmap, food_var, nutrients) ==
  IF nutrients = << >> THEN hmap
  ELSE Nutrients(Entry(hmap, Head(nutrients).nutrient,
                       Times(food_var, Head(nutrients).volume)),
                 food_var, Tail(nutrients))

\* AddConstraint with the Value arm adding a constraint as the Max arm does.
AddConstraintValue(cons, food_sum, limit) ==
  CASE limit.level = "Min" ->
         Append(cons, [expression |-> food_sum, rel |-> ">=",
                       rhs |-> limit.volume + Epsilon])
    [] limit.level \in { "Max", "Value" } ->
         Append(cons, [expression |-> food_sum, rel |-> "<=", rhs |-> limit.volume])

\* AddConstraint with the Min arm leaving out the tolerance.
AddConstraintNoTolerance(cons, food_sum, limit) ==
  CASE limit.level = "Min" ->
         Append(cons, [expression |-> food_sum, rel |-> ">=", rhs |-> limit.volume])
    [] limit.level = "Max" ->
         Append(cons, [expression |-> food_sum, rel |-> "<=", rhs |-> limit.volume])
    [] limit.level = "Value" -> cons

\* AddConstraint with the relations of the Min and Max arms exchanged.
AddConstraintExchanged(cons, food_sum, limit) ==
  CASE limit.level = "Min" ->
         Append(cons, [expression |-> food_sum, rel |-> "<=",
                       rhs |-> limit.volume + Epsilon])
    [] limit.level = "Max" ->
         Append(cons, [expression |-> food_sum, rel |-> ">=", rhs |-> limit.volume])
    [] limit.level = "Value" -> cons

\* match guide.limit.level, p.add_constraint(constraint!(..))
AddConstraint(cons, food_sum, limit) ==
  CASE limit.level = "Min" ->
         Append(cons, [expression |-> food_sum, rel |-> ">=",
                       rhs |-> limit.volume + Epsilon])
    [] limit.level = "Max" ->
         Append(cons, [expression |-> food_sum, rel |-> "<=", rhs |-> limit.volume])
    [] limit.level = "Value" -> cons

Init ==
  /\ \E input \in Inputs :
       /\ guidelines = input[1]
       /\ food_properties = input[2]
  /\ pc = "Setup"
  /\ vars = << >>
  /\ food_vars = [d \in {} |-> 0]
  /\ objective = ZeroExpression
  /\ constraints = << >>
  /\ h = [n \in {} |-> << >>]
  /\ food = 1
  /\ guide = 1
  /\ solution = [kind |-> "None"]
  /\ printed = << >>
  /\ result = "None"

\* One step of Dish::FOODS.iter().map(..).collect(): a variable for a dish.
RegisterVariable ==
  /\ pc = "Setup"
  /\ LET f_var == Len(vars) + 1
     IN  /\ vars' = Append(vars, VariableDefinition)
         /\ food_vars' = food_vars @@ (FOODS[f_var] :> f_var)
         /\ pc' = IF f_var < Len(FOODS) THEN "Setup" ELSE "Objective"
  /\ UNCHANGED << guidelines, food_properties, objective, constraints, h, food,
                  guide, solution, printed, result >>

\* The cost summation and vars.minimise(objective).using(solver).
BuildObjective ==
  /\ pc = "Objective"
  /\ IF \E i \in 1..Len(food_properties) : food_properties[i].food \notin DOMAIN food_vars
     THEN /\ pc' = "Panicked"
          /\ result' = Panic("Unmapped food")
          /\ UNCHANGED objective
     ELSE /\ objective' =
               ExpressionSum([i \in 1..Len(food_properties) |->
                                Times(food_vars[food_properties[i].food],
                                      food_properties[i].cost)])
          /\ pc' = AfterObjective
          /\ UNCHANGED result
  /\ UNCHANGED << guidelines, food_properties, vars, food_vars, constraints, h, food,
                  guide, solution, printed >>

\* One pass of the loop "for food in food_properties".
AggregateFood ==
  /\ pc = "Aggregate"
  /\ LET f == food_properties[food]
     IN  IF f.food \notin DOMAIN food_vars
         THEN /\ pc' = "Panicked"
              /\ result' = Panic("Library test")
              /\ UNCHANGED << h, food >>
         ELSE /\ h' = Nutrients(h, food_vars[f.food], f.nutrients)
              /\ food' = food + 1
              /\ pc' = IF food < Len(food_properties) THEN "Aggregate" ELSE AfterAggregate
              /\ UNCHANGED result
  /\ UNCHANGED << guidelines, food_properties, vars, food_vars, objective, constraints,
                  guide, solution, printed >>

\* One pass of the loop "for guide in guidelines".
TranslateGuideline ==
  /\ pc = "Translate"
  /\ LET limit == guidelines[guide].limit
     IN  IF limit.nutrient \notin DOMAIN h
         THEN /\ pc' = "Panicked"
              /\ result' = Panic("Library test")
              /\ UNCHANGED << constraints, guide >>
         ELSE /\ constraints' = AddConstraint(constraints, ExpressionSum(h[limit.nutrient]), limit)
              /\ guide' = guide + 1
              /\ pc' = IF guide < Len(guidelines) THEN "Translate" ELSE "Solve"
              /\ UNCHANGED result
  /\ UNCHANGED << guidelines, food_properties, vars, food_vars, objective, h, food,
                  solution, printed >>

\* p.solve().expect("Library test")
Solve ==
  /\ pc = "Solve"
  /\ \E r \in SolveResults(vars, objective, constraints) :
       /\ solution' = r
       /\ IF r.kind = "Ok"
          THEN pc' = "Extract" /\ UNCHANGED result
          ELSE pc' = "Panicked" /\ result' = Panic("Library test")
  /\ UNCHANGED << guidelines, food_properties, vars, food_vars, objective, constraints,
                  h, food, guide, printed >>

\* One pass of the loop "for food in &Dish::FOODS": print solution.value(var).
ExtractValue ==
  /\ pc = "Extract"
  /\ LET d == FOODS[Len(printed) + 1]
     IN  IF d \notin DOMAIN food_vars
         THEN /\ pc' = "Panicked"
              /\ result' = Panic("Library test")
              /\ UNCHANGED printed
         ELSE /\ printed' = Append(printed, [food |-> d,
                                             num |-> solution.num[food_vars[d]],
                                             den |-> solution.den])
              /\ pc' = IF Len(printed) + 1 < Len(FOODS) THEN "Extract" ELSE "Return"
              /\ UNCHANGED result
  /\ UNCHANGED << guidelines, food_properties, vars, food_vars, objective, constraints,
                  h, food, guide, solution >>

\* Ok(())
Return ==
  /\ pc = "Return"
  /\ pc' = "Done"
  /\ result' = OkUnit
  /\ UNCHANGED << guidelines, food_properties, vars, food_vars, objective, constraints,
                  h, food, guide, solution, printed >>

Next ==
  \/ RegisterVariable
  \/ BuildObjective
  \/ AggregateFood
  \/ TranslateGuideline
  \/ Solve
  \/ ExtractValue
  \/ Return

Spec ==
  Init /\ [][Next]_state

\* ------------------------------------------------------------------------
\* Properties
\* ------------------------------------------------------------------------

Terminal ==
  { "Done", "Panicked" }

\* What one unit of dish d provides of nutrient n according to food_properties:
\* the sum of the volumes of all of d's properties for n.
Contribution(d, n) ==
  SumTo([i \in 1..Len(food_properties) |->
           IF food_properties[i].food = d
           THEN LET ns == food_properties[i].nutrients
                IN  SumTo([j \in 1..Len(ns) |->
                             IF ns[j].nutrient = n THEN ns[j].volume ELSE 0], Len(ns))
           ELSE 0],
        Len(food_properties))

\* Some item of food_properties contributes to nutrient n.
Contributed(n) ==
  \E i \in 1..Len(food_properties) :
    \E j \in 1..Len(food_properties[i].nutrients) :
      food_properties[i].nutrients[j].nutrient = n

IsBound(g) ==
  g.limit.level \in { "Min", "Max" }

\* The guidelines the loop over guidelines has passed.
Translated ==
  SubSeq(guidelines, 1, guide - 1)

\* The loop over guidelines has run to its end.
TranslationDone ==
  pc \in { "Solve", "Extract", "Return", "Done" } \/ solution.kind # "None"

\* The loop over food_properties has run to its end.
AggregationDone ==
  pc \in { "Translate", "Solve", "Extract", "Return", "Done" } \/ solution.kind # "None"

\* The lifecycle state of the run.
Phase(at) ==
  CASE at = "Setup" -> "Setup"
    [] at \in { "Objective", "Aggregate", "Translate" } -> "Formulating"
    [] at = "Solve" -> "Solving"
    [] at \in { "Extract", "Return", "Done" } -> "Solved"
    [] at = "Panicked" -> "Failed"

\* C1: called with the guidelines and foods of main(), the run ends Solved
\* (with a solution), not in a failure or an abort.
C1_ScenarioASolved ==
  (guidelines = MainGuidelines /\ food_properties = MainFoodProperties /\ pc \in Terminal)
    => (pc = "Done" /\ solution.kind = "Ok")

\* C2: when some guideline names a category no item contributes to, the run
\* does not abort and ends returning the error value UnknownCategory.
C2_UnknownCategoryReturned ==
  (\E i \in 1..Len(guidelines) : ~ Contributed(guidelines[i].limit.nutrient))
    => /\ pc # "Panicked"
       /\ pc \in Terminal => result = "Err(UnknownCategory)"

\* C3: when solve yields Infeasible, the run does not abort, extracts nothing
\* and ends returning the failure to its caller.
C3_InfeasibleSurfaced ==
  solution.kind = "Infeasible"
    => /\ pc # "Panicked"
       /\ printed = << >>
       /\ pc \in Terminal => result = "Err(Infeasible)"

\* C4: once the whole guideline list is translated, the problem has exactly
\* as many constraints as the list has Min and Max guidelines.
C4_OneConstraintPerBound ==
  TranslationDone => Len(constraints) = Len(SelectSeq(guidelines, IsBound))

\* C4 witness: a list naming one category in two Min/Max guidelines is
\* translated to its end, and so is a list with an informational guideline.
C4_Witness ==
  /\ TranslationDone
  /\ Len(guidelines) = 2
  /\ guidelines[1].limit.nutrient = guidelines[2].limit.nutrient
  /\ IsBound(guidelines[1])
  /\ IsBound(guidelines[2])
  /\ Len(constraints) = 2

\* C5: the k-th constraint is the one of the k-th Min/Max guideline passed:
\* its expression is the aggregate of that guideline's category, with
\* ">= bound + 0.0001" for Min and "<= bound" for Max.
C5_ConstraintForm ==
  LET bounds == SelectSeq(Translated, IsBound)
  IN  \A k \in 1..Len(constraints) :
        /\ k <= Len(bounds)
        /\ LET limit == bounds[k].limit
               c     == constraints[k]
           IN  /\ limit.nutrient \in DOMAIN h
               /\ c.expression = ExpressionSum(h[limit.nutrient])
               /\ limit.level = "Min" => (c.rel = ">=" /\ c.rhs = limit.volume + Fixed(0, 1))
               /\ limit.level = "Max" => (c.rel = "<=" /\ c.rhs = limit.volume)

\* C5 witness: a Min and a Max guideline have both been translated.
C5_Witness ==
  /\ Len(constraints) = 2
  /\ constraints[1].rel = ">="
  /\ constraints[2].rel = "<="
  /\ constraints[1].rhs > 1

\* C6: after aggregation, the expression of every category has, for each
\* dish's variable, the sum of that dish's contributions to the category (zero
\* for a dish without any), and the categories are those contributed to.
C6_AggregatedCoefficients ==
  AggregationDone
    => /\ DOMAIN h = { n \in Nutrient : Contributed(n) }
       /\ \A n \in DOMAIN h : \A d \in Dish :
            ExpressionSum(h[n])[food_vars[d]] = Contribution(d, n)

\* C6 witness: one dish contributes twice to a category another dish
\* contributes to as well.
C6_Witness ==
  /\ AggregationDone
  /\ \E n \in DOMAIN h :
       /\ Len(h[n]) = 3
       /\ h[n][1] # h[n][2]
       /\ \E v, w \in Variable :
            v # w /\ h[n][1][v] # 0 /\ h[n][2][v] # 0 /\ h[n][3][w] # 0

\* What C7 asks of one step.
LifecycleStep ==
  \* no step after a terminal state
  /\ pc \notin Terminal
  \* the phases are passed in order, none skipped; a run may fail at any point
  /\ << Phase(pc), Phase(pc') >> \in
       { << "Setup", "Setup" >>, << "Setup", "Formulating" >>,
         << "Formulating", "Formulating" >>, << "Formulating", "Solving" >>,
         << "Solving", "Solved" >>, << "Solved", "Solved" >>,
         << "Formulating", "Failed" >>, << "Solving", "Failed" >> }
  \* solve is invoked on the complete formulation
  /\ pc = "Solve"
       => /\ DOMAIN food_vars = Dish
          /\ Len(vars) = Len(FOODS)
          /\ \A d \in Dish :
               objective[food_vars[d]] =
                 SumTo([i \in 1..Len(food_properties) |->
                          IF food_properties[i].food = d THEN food_properties[i].cost ELSE 0],
                       Len(food_properties))
          /\ food = Len(food_properties) + 1 \/ food_properties = << >>
          /\ guide = Len(guidelines) + 1
          /\ solution.kind = "None"
  \* nothing is added to the problem from the invocation of solve on
  /\ Phase(pc) \in { "Solving", "Solved" }
       => UNCHANGED << vars, food_vars, objective, constraints >>
  \* quantities are read in the Solved state only
  /\ printed' # printed => (Phase(pc) = "Solved" /\ solution.kind = "Ok")

\* C7: every step of every run keeps to the lifecycle
\* Setup -> Formulating -> Solving -> (Solved | Failed).
C7_Lifecycle ==
  [][LifecycleStep]_state

\* C7 witness: a run with constraints went through all phases to the end.
C7_Witness ==
  /\ pc = "Done"
  /\ Len(constraints) = 2
  /\ Len(printed) = Len(FOODS)

\* The value num / den of every variable meets guideline g.
Meets(g, num, den) ==
  LET total == SumTo([i \in 1..Len(FOODS) |->
                        Contribution(FOODS[i], g.limit.nutrient) * num[food_vars[FOODS[i]]]],
                     Len(FOODS))
  IN  /\ g.limit.level = "Min" => total >= g.limit.volume * den
      /\ g.limit.level = "Max" => total <= g.limit.volume * den

\* C8: in the Solved state every quantity is >= 0 and every Min and Max
\* guideline of the input holds of the quantities.
C8_SolutionFeasible ==
  Phase(pc) = "Solved"
    => /\ solution.kind = "Ok"
       /\ solution.den > 0
       /\ \A v \in Variable : solution.num[v] >= 0
       /\ \A i \in 1..Len(guidelines) : Meets(guidelines[i], solution.num, solution.den)
       /\ \A k \in 1..Len(printed) :
            /\ printed[k].num = solution.num[food_vars[printed[k].food]]
            /\ printed[k].den = solution.den

\* C8 witness: a run with a Min and a Max guideline ended Solved with a
\* positive quantity.
C8_Witness ==
  /\ pc = "Done"
  /\ \E i, j \in 1..Len(guidelines) :
       guidelines[i].limit.level = "Min" /\ guidelines[j].limit.level = "Max"
  /\ \E k \in 1..Len(printed) : printed[k].num > 0

\* The precondition of C9: no guidelines, and every dish has a cost, all positive.
NoGuidelinesPositiveCosts ==
  /\ guidelines = << >>
  /\ \A d \in Dish : \E i \in 1..Len(food_properties) : food_properties[i].food = d
  /\ \A i \in 1..Len(food_properties) : food_properties[i].cost > 0

\* C9: without guidelines and with positive costs the run ends Solved, every
\* quantity 0 and the objective value 0.
C9_NoGuidelinesZero ==
  NoGuidelinesPositiveCosts
    => /\ pc # "Panicked"
       /\ solution.kind # "None"
            => /\ solution.kind = "Ok"
               /\ \A v \in Variable : solution.num[v] = 0
               /\ Dot(objective, solution.num) = 0
       /\ \A k \in 1..Len(printed) : printed[k].num = 0
       /\ pc = "Done" => Len(printed) = Len(FOODS)

\* C9 witness: such a run, on main()'s foods, has ended.
C9_Witness ==
  /\ NoGuidelinesPositiveCosts
  /\ food_properties = MainFoodProperties
  /\ pc = "Done"
  /\ result = OkUnit

\* C10: the step translating an informational guideline leaves the constraints
\* as they are, raises no failure and moves on to the next guideline.
C10_InformationalNoOp ==
  [][(pc = "Translate" /\ guidelines[guide].limit.level = "Value")
       => (constraints' = constraints /\ pc' # "Panicked" /\ guide' = guide + 1)]_state

====
